---- MODULE Spec2Model ----
(***************************************************************************)
(* A model of the rail isochrone engine: the transport network built from  *)
(* an adapter (csa.rs, TransportNetwork::from_adapter), the calendar       *)
(* (Calendar::runs_on, Service::runs_on) and the Connection Scan query     *)
(* (TransportNetwork::query_lat_lon with its CsaState).                    *)
(*                                                                         *)
(* Times of day (chrono NaiveTime) are seconds since midnight, dates       *)
(* (NaiveDate) are day numbers counted from a Monday, and a NaiveDateTime  *)
(* is date * SecondsPerDay + time of day.  Stops lie on one line; a        *)
(* coordinate is a position in metres on that line.                        *)
(***************************************************************************)
EXTENDS Integers, Sequences, FiniteSets, TLC

VARIABLES
    adapter,      \* what the adapter's four producers return
    pc,           \* the position of the program
    stops,        \* TransportNetwork.stops (the keys)
    connections,  \* TransportNetwork.connections
    transfers,    \* TransportNetwork.transfers
    calendar,     \* TransportNetwork.calendar
    query,        \* the arguments of the running query_lat_lon call
    pending,      \* what the radius iterator has still to yield
    csa,          \* the call's CsaState
    first_connection, \* the index connections_after starts from (0-based)
    cursor,       \* the scan's position in connections (1-based)
    seeded,       \* csa.arrival_times as Phase A left it
    result,       \* the (stop, arrival_time) pairs the call returned
    probe,        \* the last evaluation of a pure function under study
    outcome,      \* from_adapter: the producers it called, the error it returned
    file,         \* the bytes of the file save wrote
    other,        \* the frame of a second query_lat_lon call on the same network
    mca,          \* the records of the timetable's .mca file, in file order
    timetable     \* CifTimetable: the schedules parse_mca returned

vars == <<adapter, pc, stops, connections, transfers, calendar, query,
          pending, csa, first_connection, cursor, seeded, result, probe,
          outcome, file, other, mca, timetable>>

(***************************************************************************)
(* Bounds of the model.                                                    *)
(***************************************************************************)
NStops == 4        \* stops 1..NStops
NSlots == 4        \* civil times on the grid, a window around midnight
MaxHops == 3       \* hops of the longest trip
MaxDate == 2       \* query dates 0..MaxDate
MaxConns == 3      \* connections of an adapter that lists them in any order
MaxCalDate == 8    \* dates 0..MaxCalDate put to the calendar
MaxWindows == 2    \* service windows of a trip
MaxDwellHops == 2  \* hops of a trip whose hops may take no time
SlotSeconds == 200 \* grid step of the timetable

(***************************************************************************)
(* Program constants.                                                      *)
(***************************************************************************)
SecondsPerDay == 86400
WALKING_SPEED_DM_S == 14   \* WALKING_SPEED_M_S = 1.4, in decimetres
SEED_RADIUS_M == 500

StopIds == 1..NStops
TripIds == {1, 2}

(***************************************************************************)
(* chrono: NaiveDateTime::new, NaiveDate::weekday.                         *)
(***************************************************************************)
NaiveDateTime(date, time) == date * SecondsPerDay + time

DateOf(dt) == dt \div SecondsPerDay

\* days_since(Weekday::Mon): 0 = Monday .. 6 = Sunday; day 0 is a Monday
Weekday(date) == date % 7

(***************************************************************************)
(* Connection.                                                             *)
(***************************************************************************)
departure_date_time(c, date) == NaiveDateTime(date, c.departure_time)

arrival_date_time_same_day(c, date) == NaiveDateTime(date, c.arrival_time)

arrival_date_time_rolls_on_equal(c, date) ==
    IF c.arrival_time <= c.departure_time
    THEN NaiveDateTime(date + 1, c.arrival_time)
    ELSE NaiveDateTime(date, c.arrival_time)

arrival_date_time(c, date) ==
    IF c.arrival_time < c.departure_time
    THEN NaiveDateTime(date + 1, c.arrival_time)
    ELSE NaiveDateTime(date, c.arrival_time)

(***************************************************************************)
(* Service and Calendar.                                                   *)
(***************************************************************************)
Service_runs_on_exclusive_end(s, date) ==
    LET in_range == s.start_date <= date /\ s.end_date > date
        valid_weekday == s.runs_on[Weekday(date) + 1]
    IN  in_range /\ valid_weekday

Service_runs_on(s, date) ==
    LET in_range == s.start_date <= date /\ s.end_date >= date
        valid_weekday == s.runs_on[Weekday(date) + 1]
    IN  in_range /\ valid_weekday

\* services.iter().any(|s| s.runs_on(date))
RECURSIVE AnyRunsOn(_, _)
AnyRunsOn(services, date) ==
    IF services = <<>> THEN FALSE
    ELSE IF Service_runs_on(Head(services), date) THEN TRUE
    ELSE AnyRunsOn(Tail(services), date)

\* Calendar::new
Calendar_new(services, cancellations) ==
    [services |-> services, cancellations |-> cancellations]

Calendar_runs_on_ignoring_cancellations(cal, trip_id, date) ==
    IF trip_id \in DOMAIN cal.services
    THEN AnyRunsOn(cal.services[trip_id], date)
    ELSE FALSE

Calendar_runs_on(cal, trip_id, date) ==
    LET service_runs ==
            IF trip_id \in DOMAIN cal.services
            THEN AnyRunsOn(cal.services[trip_id], date)
            ELSE FALSE
        cancelled ==
            IF trip_id \in DOMAIN cal.cancellations
            THEN AnyRunsOn(cal.cancellations[trip_id], date)
            ELSE FALSE
    IN  service_runs /\ ~cancelled

(***************************************************************************)
(* The build: sort_unstable_by_key(|c| c.departure_time).  The order of    *)
(* connections with equal keys is not specified by the sort, so the        *)
(* result is any permutation of the input that is sorted by the key.       *)
(***************************************************************************)
SortedByDeparture(s) ==
    \A i \in 1..(Len(s) - 1) : s[i].departure_time <= s[i + 1].departure_time

PermutationsOf(s) ==
    { [i \in 1..Len(s) |-> s[p[i]]] : p \in Permutations(1..Len(s)) }

unsorted(s) == { s }

sort_unstable_by_key(s) == { r \in PermutationsOf(s) : SortedByDeparture(r) }

TransportNetwork_from_adapter(a) ==
    { [stops |-> a.stops, connections |-> cs, transfers |-> a.transfers,
       calendar |-> a.calendar] : cs \in sort_unstable_by_key(a.connections) }

\* the adapter's producers in the order from_adapter calls them; each returns
\* Ok or the error a.errors holds for it ("ok" stands for no error)
Producers == << "stops", "connections", "transfers", "calendar" >>

NoErrors == [p \in { Producers[i] : i \in DOMAIN Producers } |-> "ok"]

Failing(a) == { i \in DOMAIN Producers : a.errors[Producers[i]] # "ok" }

\* the `?` after each call: the producers called run up to the first that fails
from_adapter_calls_all(a) == Producers

from_adapter_calls(a) ==
    IF Failing(a) = {} THEN Producers
    ELSE SubSeq(Producers, 1, CHOOSE i \in Failing(a) : \A j \in Failing(a) : i <= j)

\* Err(e) of the last producer called, "none" for Ok(network)
from_adapter_error(a) ==
    IF Failing(a) = {} THEN "none"
    ELSE a.errors[from_adapter_calls(a)[Len(from_adapter_calls(a))]]

(***************************************************************************)
(* Geometry, on the line: the great-circle distance of two positions, the  *)
(* radius search and the walking time to a seed stop.                      *)
(***************************************************************************)
StopPos(s) == IF s = 1 THEN 0 ELSE 280 + (s - 2) * 5000

\* a position with no stop within the radius
RemotePos == 2780

Distance(a, b) == IF a >= b THEN a - b ELSE b - a

\* the (StopId, distance) pairs within the radius
stops_within_radius(keys, pos, distance) ==
    { <<s, Distance(pos, StopPos(s))>> :
        s \in { k \in keys : Distance(pos, StopPos(k)) <= distance } }

\* the orders in which the iterator may yield a set of pairs
OrdersOf(S) ==
    { q \in [1..Cardinality(S) -> S] : \A i, j \in DOMAIN q : i # j => q[i] # q[j] }

\* (distance / WALKING_SPEED_M_S) as i64
WalkSeconds(distance) == (distance * 10) \div WALKING_SPEED_DM_S

(***************************************************************************)
(* CsaState.                                                               *)
(***************************************************************************)
CsaState_new == [arrival_times |-> <<>>, boarded_trips |-> {}]

update_arrival(st, stop_id, time) ==
    [st EXCEPT !.arrival_times = (stop_id :> time) @@ @]

board_trip(st, trip_id) ==
    [st EXCEPT !.boarded_trips = @ \cup {trip_id}]

has_boarded(st, trip_id) == trip_id \in st.boarded_trips

can_board_strict(st, stop_id, departure_time) ==
    IF stop_id \in DOMAIN st.arrival_times
    THEN st.arrival_times[stop_id] < departure_time
    ELSE FALSE

can_board_unlabelled(st, stop_id, departure_time) ==
    IF stop_id \in DOMAIN st.arrival_times
    THEN st.arrival_times[stop_id] <= departure_time
    ELSE TRUE

can_board(st, stop_id, departure_time) ==
    IF stop_id \in DOMAIN st.arrival_times
    THEN st.arrival_times[stop_id] <= departure_time
    ELSE FALSE

should_update_arrival_always(st, stop_id, new_arrival) == TRUE

should_update_arrival_unless_equal(st, stop_id, new_arrival) ==
    IF stop_id \in DOMAIN st.arrival_times
    THEN st.arrival_times[stop_id] # new_arrival
    ELSE TRUE

should_update_arrival(st, stop_id, new_arrival) ==
    IF stop_id \in DOMAIN st.arrival_times
    THEN st.arrival_times[stop_id] > new_arrival
    ELSE TRUE

(***************************************************************************)
(* TransportNetwork::get_transfers and the two loops of query_lat_lon.     *)
(***************************************************************************)
get_transfers(tr, stop) == IF stop \in DOMAIN tr THEN tr[stop] ELSE <<>>

\* a relaxation that follows the transfers of every stop it labels
RECURSIVE RelaxTransfers_transitive(_, _, _)
RelaxTransfers_transitive(st, ts, time) ==
    IF ts = <<>> THEN st
    ELSE LET t == Head(ts)
             new_arrival == time + t.transfer_time
         IN  IF should_update_arrival(st, t.to_stop_id, new_arrival)
             THEN RelaxTransfers_transitive(
                      RelaxTransfers_transitive(
                          update_arrival(st, t.to_stop_id, new_arrival),
                          get_transfers(transfers, t.to_stop_id), new_arrival),
                      Tail(ts), time)
             ELSE RelaxTransfers_transitive(st, Tail(ts), time)

\* for transfer in get_transfers(stop): relax transfer.to_stop_id from `time`
RECURSIVE RelaxTransfers(_, _, _)
RelaxTransfers(st, ts, time) ==
    IF ts = <<>> THEN st
    ELSE LET t == Head(ts)
             new_arrival == time + t.transfer_time
         IN  RelaxTransfers(
                 IF should_update_arrival(st, t.to_stop_id, new_arrival)
                 THEN update_arrival(st, t.to_stop_id, new_arrival)
                 ELSE st,
                 Tail(ts), time)

\* the body of the seed loop for one (stop_id, distance)
SeedStop(st, tr, origin_time, stop_id, distance) ==
    LET time == origin_time + WalkSeconds(distance)
    IN  RelaxTransfers(update_arrival(st, stop_id, time),
                       get_transfers(tr, stop_id), time)

\* a scan that boards the trip only when the connection improves a label
ScanConnection_boards_on_improvement(st, tr, cal, date, c) ==
    IF ~Calendar_runs_on(cal, c.trip_id, date) THEN st
    ELSE IF /\ ~has_boarded(st, c.trip_id)
            /\ ~can_board(st, c.from_stop_id, departure_date_time(c, date))
    THEN st
    ELSE IF should_update_arrival(st, c.to_stop_id, arrival_date_time(c, date))
    THEN RelaxTransfers(
             update_arrival(board_trip(st, c.trip_id), c.to_stop_id,
                            arrival_date_time(c, date)),
             get_transfers(tr, c.to_stop_id), arrival_date_time(c, date))
    ELSE st

\* the body of the scan loop for one connection
ScanConnection(st, tr, cal, date, c) ==
    IF ~Calendar_runs_on(cal, c.trip_id, date) THEN st
    ELSE LET already_boarded == has_boarded(st, c.trip_id)
             may_board == can_board(st, c.from_stop_id, departure_date_time(c, date))
         IN  IF ~already_boarded /\ ~may_board THEN st
             ELSE LET b == board_trip(st, c.trip_id)
                  IN  IF should_update_arrival(b, c.to_stop_id, arrival_date_time(c, date))
                      THEN RelaxTransfers(
                               update_arrival(b, c.to_stop_id, arrival_date_time(c, date)),
                               get_transfers(tr, c.to_stop_id),
                               arrival_date_time(c, date))
                      ELSE b

(***************************************************************************)
(* connections_after: binary_search_by_key(&departure_time, ..) returns    *)
(* Ok(i) for any i whose key equals the target when there is one, and      *)
(* otherwise Err(n) with n the insertion point.                            *)
(***************************************************************************)
binary_search_by_key(cs, departure_time) ==
    LET matches == { i \in 1..Len(cs) : cs[i].departure_time = departure_time }
    IN  IF matches # {}
        THEN { i - 1 : i \in matches }
        ELSE { Cardinality({ i \in 1..Len(cs) : cs[i].departure_time < departure_time }) }

\* Phase C: csa.arrival_times projected to (stop, arrival_time) pairs
Emitted(st) == { <<s, st.arrival_times[s]>> : s \in DOMAIN st.arrival_times }

(***************************************************************************)
(* The adapter.  As CifAdapter does, it yields the hops of each schedule   *)
(* in the schedule's order, one schedule after the other, the transfers    *)
(* grouped by their from-stop, and a calendar with the windows of the      *)
(* schedules it holds.  Trips call at consecutive stops of a ring, one     *)
(* grid step per hop.                                                      *)
(***************************************************************************)
Ring(n) == ((n - 1) % NStops) + 1

SlotTime(k) == (SecondsPerDay - 2 * SlotSeconds + k * SlotSeconds) % SecondsPerDay

GridTimes == { SlotTime(k) : k \in 0..(NSlots - 1) }

\* locations.windows(2) of a schedule from stop s0 at slot k0 with h hops
TripHops(trip_id, s0, k0, h) ==
    [i \in 1..h |->
        [trip_id |-> trip_id,
         from_stop_id |-> Ring(s0 + i - 1),
         to_stop_id |-> Ring(s0 + i),
         departure_time |-> SlotTime(k0 + i - 1),
         arrival_time |-> SlotTime(k0 + i)]]

Trip1Patterns ==
    UNION { { TripHops(1, 1, k0, h) : k0 \in 0..(NSlots - 1 - h) } : h \in 1..MaxHops }

Trip2Patterns ==
    { <<>> } \cup { TripHops(2, s0, k0, 1) : s0 \in StopIds, k0 \in 0..(NSlots - 2) }

TransferPool ==
    << [from_stop_id |-> 1, to_stop_id |-> 2, transfer_time |-> 60],
       [from_stop_id |-> 2, to_stop_id |-> 3, transfer_time |-> 60] >>

\* into_group_map_by(|t| t.from_stop_id) of the chosen links
GroupedTransfers(chosen) ==
    LET links == SelectSeq(TransferPool, LAMBDA t : t \in chosen)
        froms == { t.from_stop_id : t \in chosen }
    IN  [s \in froms |-> SelectSeq(links, LAMBDA t : t.from_stop_id = s)]

AllDays == [d \in 1..7 |-> TRUE]

NewService(start_date, end_date, runs_on) ==
    [start_date |-> start_date, end_date |-> end_date, runs_on |-> runs_on]

\* trip 1 is cancelled from date 1 on, trip 2 on the last date
AdapterCalendar(trips) ==
    [services |-> [t \in trips |-> << NewService(0, MaxDate, AllDays) >>],
     cancellations |->
        [t \in trips |->
            IF t = 1 THEN << NewService(1, MaxDate, AllDays) >>
            ELSE << NewService(MaxDate, MaxDate, AllDays) >>]]

TripsOf(cs) == { cs[i].trip_id : i \in DOMAIN cs }

Adapters ==
    { [stops |-> StopIds,
       connections |-> p1 \o p2,
       transfers |-> GroupedTransfers(chosen),
       calendar |-> AdapterCalendar(TripsOf(p1 \o p2)),
       errors |-> NoErrors] :
        p1 \in Trip1Patterns, p2 \in Trip2Patterns,
        chosen \in SUBSET { TransferPool[i] : i \in DOMAIN TransferPool } }

Origins == { StopPos(s) : s \in StopIds } \cup { RemotePos }

QueryDates == 0..MaxDate

(***************************************************************************)
(* The program: build a network from the adapter, then run queries on it.  *)
(***************************************************************************)
NoQuery == [pos |-> 0, date |-> 0, departure_time |-> 0]

NoOutcome == [calls |-> <<>>, error |-> "none"]

\* the locals of a query_lat_lon call that has not begun
IdleFrame ==
    [pc |-> "idle", query |-> NoQuery, pending |-> <<>>, csa |-> CsaState_new,
     first_connection |-> 0, cursor |-> 0, result |-> {}]

\* no timetable archive has been read
NoTimetable == [schedules |-> <<>>]

NothingBuilt ==
    /\ pc = "build"
    /\ stops = {}
    /\ connections = <<>>
    /\ transfers = <<>>
    /\ calendar = [services |-> <<>>, cancellations |-> <<>>]
    /\ query = NoQuery
    /\ pending = <<>>
    /\ csa = CsaState_new
    /\ first_connection = 0
    /\ cursor = 0
    /\ seeded = <<>>
    /\ result = {}
    /\ probe = <<>>
    /\ outcome = NoOutcome
    /\ other = IdleFrame
    /\ file = <<>>
    /\ mca = <<>>
    /\ timetable = NoTimetable

Init ==
    /\ adapter \in Adapters
    /\ NothingBuilt

\* TransportNetwork::from_adapter: Err(e) as soon as a producer fails, else
\* Ok(network)
FromAdapter ==
    /\ pc = "build"
    /\ outcome' = [calls |-> from_adapter_calls(adapter),
                   error |-> from_adapter_error(adapter)]
    /\ IF from_adapter_error(adapter) # "none"
       THEN /\ pc' = "failed"
            /\ UNCHANGED <<stops, connections, transfers, calendar>>
       ELSE /\ \E n \in TransportNetwork_from_adapter(adapter) :
                /\ stops' = n.stops
                /\ connections' = n.connections
                /\ transfers' = n.transfers
                /\ calendar' = n.calendar
            /\ pc' = "idle"
    /\ UNCHANGED <<mca, timetable, other, adapter, query, pending, csa, first_connection, cursor,
                   seeded, result, probe, file>>

\* query_lat_lon is entered: a fresh CsaState, and the radius search
QueryStart ==
    /\ pc = "idle"
    /\ \E pos \in Origins, date \in QueryDates, time \in GridTimes :
        /\ query' = [pos |-> pos, date |-> date, departure_time |-> time]
        /\ pending' \in OrdersOf(stops_within_radius(stops, pos, SEED_RADIUS_M))
    /\ csa' = CsaState_new
    /\ first_connection' = 0
    /\ cursor' = 0
    /\ seeded' = <<>>
    /\ result' = {}
    /\ pc' = "seed"
    /\ UNCHANGED <<mca, timetable, other, outcome, file, adapter, stops, connections, transfers, calendar, probe>>

QueryT0 == NaiveDateTime(query.date, query.departure_time)

\* one iteration of the seed loop
SeedStep ==
    /\ pc = "seed"
    /\ pending # <<>>
    /\ csa' = SeedStop(csa, transfers, QueryT0, Head(pending)[1], Head(pending)[2])
    /\ pending' = Tail(pending)
    /\ UNCHANGED <<mca, timetable, other, outcome, file, adapter, pc, stops, connections, transfers, calendar, query,
                   first_connection, cursor, seeded, result, probe>>

\* connections_after(departure_time)
ConnectionsAfter ==
    /\ pc = "seed"
    /\ pending = <<>>
    /\ first_connection' \in binary_search_by_key(connections, query.departure_time)
    /\ cursor' = first_connection' + 1
    /\ seeded' = csa.arrival_times
    /\ pc' = "scan"
    /\ UNCHANGED <<mca, timetable, other, outcome, file, adapter, stops, connections, transfers, calendar, query,
                   pending, csa, result, probe>>

\* one iteration of the scan loop
ScanStep ==
    /\ pc = "scan"
    /\ cursor <= Len(connections)
    /\ csa' = ScanConnection(csa, transfers, calendar, query.date, connections[cursor])
    /\ cursor' = cursor + 1
    /\ UNCHANGED <<mca, timetable, other, outcome, file, adapter, pc, stops, connections, transfers, calendar, query,
                   pending, first_connection, seeded, result, probe>>

\* the projection of csa.arrival_times that query_lat_lon returns; the
\* lookup self.stops[&id] of a labelled stop that is no key of stops panics
Emit ==
    /\ pc = "scan"
    /\ cursor > Len(connections)
    /\ IF DOMAIN csa.arrival_times \subseteq stops
       THEN result' = Emitted(csa) /\ pc' = "done"
       ELSE result' = {} /\ pc' = "panic"
    /\ UNCHANGED <<mca, timetable, other, outcome, file, adapter, stops, connections, transfers, calendar, query,
                   pending, csa, first_connection, cursor, seeded, probe>>

\* the call has returned and its CsaState is dropped; the network serves on
Return ==
    /\ pc = "done"
    /\ pc' = "idle"
    /\ query' = NoQuery
    /\ pending' = <<>>
    /\ csa' = CsaState_new
    /\ first_connection' = 0
    /\ cursor' = 0
    /\ seeded' = <<>>
    /\ result' = {}
    /\ UNCHANGED <<mca, timetable, other, outcome, file, adapter, stops, connections, transfers, calendar, probe>>

Next ==
    \/ FromAdapter
    \/ QueryStart
    \/ SeedStep
    \/ ConnectionsAfter
    \/ ScanStep
    \/ Emit
    \/ Return

Spec == Init /\ [][Next]_vars

(***************************************************************************)
(* The same program on timetables with hops that take no time (arrival ==  *)
(* departure) and with transfers from a stop to itself.  Trip 1 leaves     *)
(* stop 1 at the slot before midnight, each hop taking one grid step or    *)
(* none; trip 2 is a single hop.                                           *)
(***************************************************************************)
StepsBefore(durs, i) == Cardinality({ j \in 1..(i - 1) : durs[j] = 1 })

DwellHops(trip_id, s0, k0, durs) ==
    [i \in DOMAIN durs |->
        [trip_id |-> trip_id,
         from_stop_id |-> Ring(s0 + i - 1),
         to_stop_id |-> Ring(s0 + i),
         departure_time |-> SlotTime(k0 + StepsBefore(durs, i)),
         arrival_time |-> SlotTime(k0 + StepsBefore(durs, i) + durs[i])]]

DwellTrip1Patterns ==
    { DwellHops(1, 1, 1, durs) :
        durs \in UNION { [1..h -> {0, 1}] : h \in 1..MaxDwellHops } }

DwellTrip2Patterns ==
    { <<>> } \cup { DwellHops(2, s0, k0, << d >>) :
                      s0 \in {NStops}, k0 \in 1..2, d \in {0, 1} }

LoopTransferPool ==
    << [from_stop_id |-> 1, to_stop_id |-> 1, transfer_time |-> 60],
       [from_stop_id |-> NStops, to_stop_id |-> NStops, transfer_time |-> 60],
       [from_stop_id |-> 2, to_stop_id |-> 3, transfer_time |-> 60] >>

\* into_group_map_by(|t| t.from_stop_id) of the chosen links
LoopGroupedTransfers(chosen) ==
    LET links == SelectSeq(LoopTransferPool, LAMBDA t : t \in chosen)
        froms == { t.from_stop_id : t \in chosen }
    IN  [s \in froms |-> SelectSeq(links, LAMBDA t : t.from_stop_id = s)]

DwellAdapters ==
    { [stops |-> StopIds,
       connections |-> p1 \o p2,
       transfers |-> LoopGroupedTransfers(chosen),
       calendar |-> AdapterCalendar(TripsOf(p1 \o p2)),
       errors |-> NoErrors] :
        p1 \in DwellTrip1Patterns, p2 \in DwellTrip2Patterns,
        chosen \in SUBSET { LoopTransferPool[i] : i \in DOMAIN LoopTransferPool } }

InitDwell ==
    /\ adapter \in DwellAdapters
    /\ NothingBuilt

SpecDwell == InitDwell /\ [][Next]_vars

(***************************************************************************)
(* The same program on any adapter the CsaAdapter trait admits: producers  *)
(* that fail, connections and transfers naming a stop that stops() does    *)
(* not hold, and a connection of a trip the calendar does not hold.        *)
(***************************************************************************)
ErrorOf(p) == p \o " failed"

ErrorProfiles ==
    { [p \in DOMAIN NoErrors |-> IF p \in bad THEN ErrorOf(p) ELSE "ok"] :
        bad \in SUBSET DOMAIN NoErrors }

LooseConnections ==
    { p1 \o p2 :
        p1 \in { TripHops(1, 1, k0, 1) : k0 \in 0..(NSlots - 2) },
        p2 \in { <<>> } \cup { TripHops(2, 2, k0, 1) : k0 \in 0..(NSlots - 2) } }

LooseAdapters ==
    { [stops |-> StopIds \ missing,
       connections |-> cs,
       transfers |-> GroupedTransfers(chosen),
       calendar |-> AdapterCalendar(TripsOf(cs) \ unknown),
       errors |-> errors] :
        missing \in { {}, {2} },
        cs \in LooseConnections,
        chosen \in SUBSET { TransferPool[i] : i \in DOMAIN TransferPool },
        unknown \in { {}, {1} },
        errors \in ErrorProfiles }

InitLoose ==
    /\ adapter \in LooseAdapters
    /\ NothingBuilt

SpecLoose == InitLoose /\ [][Next]_vars

(***************************************************************************)
(* Persistence: save writes postcard::to_stdvec(self), load reads          *)
(* postcard::from_bytes.  The file is a sequence of bytes: the fields of   *)
(* the struct in their declared order (tree, stops, connections,           *)
(* transfers, calendar); an integer is a LEB128 varint (a signed one       *)
(* zigzag first), a Vec or a map is its length then its entries, a map in  *)
(* the iteration order of the HashMap, and chrono writes a NaiveTime as    *)
(* the string HH:MM:SS, a NaiveDate as the string YYYY-MM-DD and a         *)
(* TimeDelta as (secs, nanos).  A Stop is stood for by its position and    *)
(* the tree by its (position, id) items; day 0 is 2024-01-01, a Monday.    *)
(***************************************************************************)
RECURSIVE Varint(_)
Varint(n) ==
    IF n < 128 THEN << n >> ELSE << 128 + (n % 128) >> \o Varint(n \div 128)

ZigZag(n) == IF n >= 0 THEN 2 * n ELSE -2 * n - 1

UnZigZag(z) == IF z % 2 = 0 THEN z \div 2 ELSE -((z + 1) \div 2)

\* two ASCII digits
Digits2(n) == << 48 + (n \div 10), 48 + (n % 10) >>

TimeString_whole_minutes(t) ==
    << 8 >> \o Digits2(t \div 3600) \o << 58 >> \o Digits2((t \div 60) % 60)
            \o << 58 >> \o Digits2(0)

TimeString(t) ==
    << 8 >> \o Digits2(t \div 3600) \o << 58 >> \o Digits2((t \div 60) % 60)
            \o << 58 >> \o Digits2(t % 60)

DateString(d) ==
    << 10, 50, 48, 50, 52, 45, 48, 49, 45 >> \o Digits2(d + 1)

RECURSIVE Concat(_)
Concat(ss) == IF ss = <<>> THEN <<>> ELSE Head(ss) \o Concat(Tail(ss))

EncodeConnection(c) ==
    Varint(c.trip_id) \o Varint(c.from_stop_id) \o Varint(c.to_stop_id)
        \o TimeString(c.departure_time) \o TimeString(c.arrival_time)

EncodeTransfer(t) ==
    Varint(t.from_stop_id) \o Varint(t.to_stop_id)
        \o Varint(ZigZag(t.transfer_time)) \o Varint(ZigZag(0))

EncodeService(v) ==
    DateString(v.start_date) \o DateString(v.end_date)
        \o [i \in 1..7 |-> IF v.runs_on[i] THEN 1 ELSE 0]

EncodeConnections(cs) ==
    Varint(Len(cs)) \o Concat([i \in DOMAIN cs |-> EncodeConnection(cs[i])])

EncodeTransfers(ts) ==
    Varint(Len(ts)) \o Concat([i \in DOMAIN ts |-> EncodeTransfer(ts[i])])

EncodeServices(vs) ==
    Varint(Len(vs)) \o Concat([i \in DOMAIN vs |-> EncodeService(vs[i])])

\* the orders a HashMap may iterate its keys in
KeyOrders(m) ==
    { q \in [1..Cardinality(DOMAIN m) -> DOMAIN m] :
        \A i, j \in DOMAIN q : i # j => q[i] # q[j] }

EncodeStops(m) ==
    { Varint(Len(q)) \o Concat([i \in DOMAIN q |-> Varint(q[i]) \o Varint(m[q[i]])]) :
        q \in KeyOrders(m) }

EncodeTransferMap(m) ==
    { Varint(Len(q)) \o Concat([i \in DOMAIN q |-> Varint(q[i]) \o EncodeTransfers(m[q[i]])]) :
        q \in KeyOrders(m) }

EncodeServiceMap(m) ==
    { Varint(Len(q)) \o Concat([i \in DOMAIN q |-> Varint(q[i]) \o EncodeServices(m[q[i]])]) :
        q \in KeyOrders(m) }

EncodeTree(t) ==
    Varint(Len(t)) \o Concat([i \in DOMAIN t |-> Varint(t[i][1]) \o Varint(t[i][2])])

\* postcard::to_stdvec(self)
postcard_to_stdvec(n) ==
    { EncodeTree(n.tree) \o st \o EncodeConnections(n.connections) \o tr \o sv \o cn :
        st \in EncodeStops(n.stops),
        tr \in EncodeTransferMap(n.transfers),
        sv \in EncodeServiceMap(n.calendar.services),
        cn \in EncodeServiceMap(n.calendar.cancellations) }

\* the readers: each takes the bytes left and gives the value read and the
\* bytes after it
RECURSIVE ReadVarint(_)
ReadVarint(bs) ==
    IF Head(bs) < 128 THEN [v |-> Head(bs), rest |-> Tail(bs)]
    ELSE LET r == ReadVarint(Tail(bs))
         IN  [v |-> (Head(bs) - 128) + 128 * r.v, rest |-> r.rest]

Number2(bs, i) == (bs[i] - 48) * 10 + (bs[i + 1] - 48)

ReadTime(bs) ==
    [v |-> Number2(bs, 2) * 3600 + Number2(bs, 5) * 60 + Number2(bs, 8),
     rest |-> SubSeq(bs, 10, Len(bs))]

ReadDate(bs) ==
    [v |-> Number2(bs, 10) - 1, rest |-> SubSeq(bs, 12, Len(bs))]

ReadConnection(bs) ==
    LET t == ReadVarint(bs)
        f == ReadVarint(t.rest)
        o == ReadVarint(f.rest)
        d == ReadTime(o.rest)
        a == ReadTime(d.rest)
    IN  [v |-> [trip_id |-> t.v, from_stop_id |-> f.v, to_stop_id |-> o.v,
                departure_time |-> d.v, arrival_time |-> a.v],
         rest |-> a.rest]

ReadTransfer(bs) ==
    LET f == ReadVarint(bs)
        o == ReadVarint(f.rest)
        secs == ReadVarint(o.rest)
        nanos == ReadVarint(secs.rest)
    IN  [v |-> [from_stop_id |-> f.v, to_stop_id |-> o.v,
                transfer_time |-> UnZigZag(secs.v)],
         rest |-> nanos.rest]

ReadService(bs) ==
    LET b == ReadDate(bs)
        e == ReadDate(b.rest)
    IN  [v |-> NewService(b.v, e.v, [i \in 1..7 |-> e.rest[i] # 0]),
         rest |-> SubSeq(e.rest, 8, Len(e.rest))]

ReadPair(bs) ==
    LET a == ReadVarint(bs)
        b == ReadVarint(a.rest)
    IN  [v |-> << a.v, b.v >>, rest |-> b.rest]

RECURSIVE ReadConnectionsN(_, _)
ReadConnectionsN(bs, n) ==
    IF n = 0 THEN [v |-> <<>>, rest |-> bs]
    ELSE LET x == ReadConnection(bs)
             r == ReadConnectionsN(x.rest, n - 1)
         IN  [v |-> << x.v >> \o r.v, rest |-> r.rest]

RECURSIVE ReadTransfersN(_, _)
ReadTransfersN(bs, n) ==
    IF n = 0 THEN [v |-> <<>>, rest |-> bs]
    ELSE LET x == ReadTransfer(bs)
             r == ReadTransfersN(x.rest, n - 1)
         IN  [v |-> << x.v >> \o r.v, rest |-> r.rest]

RECURSIVE ReadServicesN(_, _)
ReadServicesN(bs, n) ==
    IF n = 0 THEN [v |-> <<>>, rest |-> bs]
    ELSE LET x == ReadService(bs)
             r == ReadServicesN(x.rest, n - 1)
         IN  [v |-> << x.v >> \o r.v, rest |-> r.rest]

RECURSIVE ReadPairsN(_, _)
ReadPairsN(bs, n) ==
    IF n = 0 THEN [v |-> <<>>, rest |-> bs]
    ELSE LET x == ReadPair(bs)
             r == ReadPairsN(x.rest, n - 1)
         IN  [v |-> << x.v >> \o r.v, rest |-> r.rest]

ReadConnections(bs) ==
    LET n == ReadVarint(bs) IN ReadConnectionsN(n.rest, n.v)

ReadTransfers(bs) ==
    LET n == ReadVarint(bs) IN ReadTransfersN(n.rest, n.v)

ReadServices(bs) ==
    LET n == ReadVarint(bs) IN ReadServicesN(n.rest, n.v)

ReadPairs(bs) ==
    LET n == ReadVarint(bs) IN ReadPairsN(n.rest, n.v)

\* the entries of a map whose values are Vecs, as <<key, value>> pairs
RECURSIVE ReadTransferEntriesN(_, _)
ReadTransferEntriesN(bs, n) ==
    IF n = 0 THEN [v |-> <<>>, rest |-> bs]
    ELSE LET k == ReadVarint(bs)
             x == ReadTransfers(k.rest)
             r == ReadTransferEntriesN(x.rest, n - 1)
         IN  [v |-> << << k.v, x.v >> >> \o r.v, rest |-> r.rest]

RECURSIVE ReadServiceEntriesN(_, _)
ReadServiceEntriesN(bs, n) ==
    IF n = 0 THEN [v |-> <<>>, rest |-> bs]
    ELSE LET k == ReadVarint(bs)
             x == ReadServices(k.rest)
             r == ReadServiceEntriesN(x.rest, n - 1)
         IN  [v |-> << << k.v, x.v >> >> \o r.v, rest |-> r.rest]

\* the HashMap collected from <<key, value>> pairs; no entry, the empty map
MapOf(pairs) ==
    IF pairs = <<>> THEN <<>>
    ELSE [k \in { pairs[i][1] : i \in DOMAIN pairs } |->
            pairs[CHOOSE i \in DOMAIN pairs :
                    /\ pairs[i][1] = k
                    /\ \A j \in DOMAIN pairs : pairs[j][1] = k => j <= i][2]]

ReadTransferMap(bs) ==
    LET n == ReadVarint(bs)
        r == ReadTransferEntriesN(n.rest, n.v)
    IN  [v |-> MapOf(r.v), rest |-> r.rest]

ReadServiceMap(bs) ==
    LET n == ReadVarint(bs)
        r == ReadServiceEntriesN(n.rest, n.v)
    IN  [v |-> MapOf(r.v), rest |-> r.rest]

\* postcard::from_bytes(&bytes)
postcard_from_bytes(bs) ==
    LET t == ReadPairs(bs)
        st == ReadPairs(t.rest)
        cs == ReadConnections(st.rest)
        tr == ReadTransferMap(cs.rest)
        sv == ReadServiceMap(tr.rest)
        cn == ReadServiceMap(sv.rest)
    IN  [tree |-> t.v,
         stops |-> MapOf(st.v),
         connections |-> cs.v,
         transfers |-> tr.v,
         calendar |-> Calendar_new(sv.v, cn.v)]

\* the stops in the order of their ids
RECURSIVE Ascending(_)
Ascending(S) ==
    IF S = {} THEN <<>>
    ELSE LET m == CHOOSE x \in S : \A y \in S : x <= y
         IN  << m >> \o Ascending(S \ {m})

\* self: the network the program holds
Network ==
    [tree |-> [i \in 1..Cardinality(stops) |->
                  << StopPos(Ascending(stops)[i]), Ascending(stops)[i] >>],
     stops |-> [s \in stops |-> StopPos(s)],
     connections |-> connections,
     transfers |-> transfers,
     calendar |-> calendar]

\* TransportNetwork::save, once the network is built
Save ==
    /\ pc = "idle"
    /\ file = <<>>
    /\ file' \in postcard_to_stdvec(Network)
    /\ UNCHANGED <<mca, timetable, other, outcome, adapter, pc, stops, connections, transfers, calendar,
                   query, pending, csa, first_connection, cursor, seeded, result,
                   probe>>

\* TransportNetwork::load; probe holds the network it returned
Load ==
    /\ pc = "idle"
    /\ file # <<>>
    /\ probe = <<>>
    /\ probe' = postcard_from_bytes(file)
    /\ UNCHANGED <<mca, timetable, other, outcome, file, adapter, pc, stops, connections, transfers,
                   calendar, query, pending, csa, first_connection, cursor, seeded,
                   result>>

PersistedAdapters ==
    { a \in Adapters :
        /\ \A i \in DOMAIN a.connections :
              a.connections[i].trip_id = 2 =>
                  /\ a.connections[i].from_stop_id = NStops
                  /\ a.connections[i].departure_time = SlotTime(1)
        /\ Len(a.connections) <= 3 }

InitPersist ==
    /\ adapter \in PersistedAdapters
    /\ NothingBuilt

NextPersist ==
    \/ FromAdapter
    \/ Save
    \/ Load

SpecPersist == InitPersist /\ [][NextPersist]_vars

(***************************************************************************)
(* Two calls of query_lat_lon on one network shared by reference, as the   *)
(* isochrone handler runs them: the second call is a frame of its own      *)
(* locals, stepped through the same loops in any interleaving with the     *)
(* first.                                                                  *)
(***************************************************************************)
frame_csa_shared(f) == csa

\* let mut csa = CsaState::new(): the labels a call works on are its own
frame_csa(f) == f.csa

SharedQueries ==
    { [pos |-> p, date |-> 0, departure_time |-> SlotTime(0)] : p \in Origins }

\* the frames one step of the call in frame f may lead to
CallSuccessors(f) ==
    CASE f.pc = "idle" ->
            UNION { { [IdleFrame EXCEPT !.pc = "seed", !.query = q, !.pending = o] :
                        o \in OrdersOf(stops_within_radius(stops, q.pos, SEED_RADIUS_M)) } :
                    q \in SharedQueries }
      [] f.pc = "seed" /\ f.pending # <<>> ->
            { [f EXCEPT !.csa = SeedStop(frame_csa(f), transfers,
                                         NaiveDateTime(f.query.date, f.query.departure_time),
                                         Head(f.pending)[1], Head(f.pending)[2]),
                        !.pending = Tail(f.pending)] }
      [] f.pc = "seed" /\ f.pending = <<>> ->
            { [f EXCEPT !.pc = "scan", !.first_connection = i, !.cursor = i + 1] :
                i \in binary_search_by_key(connections, f.query.departure_time) }
      [] f.pc = "scan" /\ f.cursor <= Len(connections) ->
            { [f EXCEPT !.csa = ScanConnection(frame_csa(f), transfers, calendar,
                                               f.query.date, connections[f.cursor]),
                        !.cursor = f.cursor + 1] }
      [] f.pc = "scan" /\ f.cursor > Len(connections) ->
            { IF DOMAIN frame_csa(f).arrival_times \subseteq stops
              THEN [f EXCEPT !.pc = "done", !.result = Emitted(frame_csa(f))]
              ELSE [f EXCEPT !.pc = "panic"] }
      [] f.pc = "done" -> { IdleFrame }
      [] OTHER -> {}

\* one step of the second call
OtherCall ==
    /\ pc \notin {"build", "failed"}
    /\ other' \in CallSuccessors(other)
    /\ UNCHANGED <<adapter, pc, stops, connections, transfers, calendar, query,
                   pending, csa, first_connection, cursor, seeded, result, probe,
                   outcome, file, mca, timetable>>

SharedAdapters ==
    { a \in Adapters :
        a.connections = TripHops(1, 1, 1, 2) \o TripHops(2, NStops, 0, 1) }

InitShared ==
    /\ adapter \in SharedAdapters
    /\ NothingBuilt

NextShared ==
    \/ Next
    \/ OtherCall

SpecShared == InitShared /\ [][NextShared]_vars

(***************************************************************************)
(* The build alone, for an adapter that returns its connections in any     *)
(* order: every sequence of up to MaxConns connections of a small pool.    *)
(***************************************************************************)
ConnectionPool ==
    { [trip_id |-> t,
       from_stop_id |-> f,
       to_stop_id |-> Ring(f + 1),
       departure_time |-> SlotTime(k),
       arrival_time |-> SlotTime(k + 1)] : t \in TripIds, f \in 1..2, k \in 1..2 }

AnyOrderAdapters ==
    { [stops |-> StopIds,
       connections |-> cs,
       transfers |-> <<>>,
       calendar |-> AdapterCalendar(TripsOf(cs)),
       errors |-> NoErrors] :
        cs \in UNION { [1..n -> ConnectionPool] : n \in 0..MaxConns } }

InitBuild ==
    /\ adapter \in AnyOrderAdapters
    /\ NothingBuilt

SpecBuild == InitBuild /\ [][FromAdapter]_vars

\* how often connection c occurs in the sequence cs
Occurrences(cs, c) == Cardinality({ i \in DOMAIN cs : cs[i] = c })

\* C4: after the build, departure times never decrease along connections,
\* whatever order the adapter gave, and connections is a permutation of the
\* adapter's connections.
C4_MonotoneDepartures ==
    pc = "idle" =>
        /\ \A i \in DOMAIN connections : \A j \in DOMAIN connections :
              i < j => connections[i].departure_time <= connections[j].departure_time
        /\ Len(connections) = Len(adapter.connections)
        /\ \A c \in ConnectionPool :
              Occurrences(connections, c) = Occurrences(adapter.connections, c)

\* a build whose adapter gave MaxConns connections out of departure order
C4_Witness ==
    /\ pc = "idle"
    /\ Len(adapter.connections) = MaxConns
    /\ \E i \in 1..(MaxConns - 1) :
          adapter.connections[i].departure_time
              > adapter.connections[i + 1].departure_time
    /\ connections # adapter.connections

\* (trip_id, from_stop_id) of c is at most that of d
TieBreakLeq(c, d) ==
    \/ c.trip_id < d.trip_id
    \/ c.trip_id = d.trip_id /\ c.from_stop_id <= d.from_stop_id

\* C5: after the build, connections with equal departure_time are in
\* ascending order of (trip_id, from_stop_id).
C5_TieBreak ==
    pc = "idle" =>
        \A i \in DOMAIN connections : \A j \in DOMAIN connections :
            (i < j /\ connections[i].departure_time = connections[j].departure_time)
                => TieBreakLeq(connections[i], connections[j])

(***************************************************************************)
(* The calendar alone: Calendar::runs_on put to calendars that hold, for   *)
(* trip 1, up to MaxWindows service windows and at most one cancellation   *)
(* window, and nothing for trip 2.                                         *)
(***************************************************************************)
DaysRun(days) == [d \in 1..7 |-> (d - 1) \in days]

WindowPool ==
    { NewService(start, start + len, DaysRun(days)) :
        start \in {0, 2}, len \in {0, 5}, days \in { 0..6, 0..4, {2, 6} } }

\* the map a list of windows of trip 1 is kept in: no key for no window
WindowsOfTrip1(ws) == IF ws = <<>> THEN <<>> ELSE [t \in {1} |-> ws]

Calendars ==
    { Calendar_new(WindowsOfTrip1(sv), WindowsOfTrip1(cn)) :
        sv \in UNION { [1..n -> WindowPool] : n \in 0..MaxWindows },
        cn \in UNION { [1..n -> WindowPool] : n \in 0..1 } }

CalendarDates == 0..MaxCalDate

InitCalendar ==
    /\ calendar \in Calendars
    /\ pc = "calendar"
    /\ adapter = <<>>
    /\ stops = {}
    /\ connections = <<>>
    /\ transfers = <<>>
    /\ query = NoQuery
    /\ pending = <<>>
    /\ csa = CsaState_new
    /\ first_connection = 0
    /\ cursor = 0
    /\ seeded = <<>>
    /\ result = {}
    /\ probe = <<>>
    /\ outcome = NoOutcome
    /\ other = IdleFrame
    /\ file = <<>>
    /\ mca = <<>>
    /\ timetable = NoTimetable

\* self.calendar.runs_on(trip_id, date)
RunsOn ==
    /\ pc = "calendar"
    /\ \E trip_id \in TripIds, date \in CalendarDates :
          probe' = [trip_id |-> trip_id, date |-> date,
                    runs_on |-> Calendar_runs_on(calendar, trip_id, date)]
    /\ UNCHANGED <<mca, timetable, other, outcome, file, adapter, pc, stops, connections, transfers, calendar, query,
                   pending, csa, first_connection, cursor, seeded, result>>

SpecCalendar == InitCalendar /\ [][RunsOn]_vars

(***************************************************************************)
(* The CIF import (main.rs, import_timetable): CifTimetable::read parses   *)
(* the .mca file of the archive into schedules (cif/mca.rs), CifAdapter    *)
(* numbers the stations and the schedules (cif/adapter.rs), and            *)
(* from_adapter builds the network from the adapter's producers.  A record *)
(* of the file is held by what its fixed columns hold: the two-letter      *)
(* record identity, the schedule id and type of a BS record, the tiploc,   *)
(* the times and the activity codes of a location record.                  *)
(***************************************************************************)
MaxLines == 4

\* the records a file is made of; LD is no record of the format, and is the
\* identity the third arm of parse_mca names
RecordPool ==
    { [kind |-> "BS", id |-> id, start_date |-> 0, end_date |-> MaxDate,
       days_run |-> AllDays, last_char |-> ch] :
        id \in {"A12345", "B12345"}, ch \in {"P", "C"} }
    \cup { [kind |-> "LO", tiploc |-> "T1", departure_time |-> SlotTime(0)] }
    \cup { [kind |-> "LI", tiploc |-> t, arrival_time |-> SlotTime(1),
            departure_time |-> SlotTime(1), activities |-> a] :
            t \in {"T2", "TX"}, a \in { {"T "}, {"OP"} } }
    \cup { [kind |-> "LT", tiploc |-> "T3", arrival_time |-> SlotTime(2)] }
    \cup { [kind |-> "LD", tiploc |-> "T3", arrival_time |-> SlotTime(2)] }

McaFiles == UNION { [1..n -> RecordPool] : n \in 0..MaxLines }

\* valid_activities, on the activity codes of the record
valid_activities(s) == s \cap {"T ", "D ", "U "} # {}

\* the match on the last character of a BS record
ScheduleType(ch) ==
    CASE ch = "P" -> "Permanent"
      [] ch = "O" -> "Overlay"
      [] ch = "N" -> "New"
      [] ch = "C" -> "Cancellation"
      [] OTHER -> "Err"

\* Schedule::new
Schedule_new(id, start_date, end_date, trip_type, days_run) ==
    [id |-> id, start_date |-> start_date, end_date |-> end_date,
     trip_type |-> trip_type, days_run |-> days_run, locations |-> <<>>]

\* Location::from_str; the variant Err stands for the error it returns
Location_from_str(s) ==
    CASE s.kind = "LO" ->
            [variant |-> "Origin", tiploc |-> s.tiploc,
             departure_time |-> s.departure_time]
      [] s.kind = "LI" ->
            IF ~valid_activities(s.activities) THEN [variant |-> "Err"]
            ELSE [variant |-> "Intermediate", tiploc |-> s.tiploc,
                  arrival_time |-> s.arrival_time,
                  departure_time |-> s.departure_time]
      [] s.kind = "LT" ->
            [variant |-> "Destination", tiploc |-> s.tiploc,
             arrival_time |-> s.arrival_time]
      [] OTHER -> [variant |-> "Err"]

\* Location::is_dest
is_dest(loc) == loc.variant = "Destination"

\* schedules.last_mut() ... trip.add_location(loc)
add_location(schedules, loc) ==
    IF schedules = <<>> THEN schedules
    ELSE [schedules EXCEPT ![Len(schedules)].locations = Append(@, loc)]

\* the loop of parse_mca over the lines still to read, with its two locals
RECURSIVE parse_lines(_, _, _)
parse_lines(lines, schedules, parsing_trip) ==
    IF lines = <<>> THEN [error |-> "none", schedules |-> schedules]
    ELSE LET line == Head(lines)
             rest == Tail(lines)
         IN  IF line.kind = "BS"
             THEN IF ScheduleType(line.last_char) = "Err"
                  THEN [error |-> "Unexpected character at end of line",
                        schedules |-> <<>>]
                  ELSE parse_lines(rest,
                           Append(schedules,
                                  Schedule_new(line.id, line.start_date,
                                               line.end_date,
                                               ScheduleType(line.last_char),
                                               line.days_run)),
                           TRUE)
             ELSE IF line.kind = "LI" /\ ~valid_activities(line.activities)
             THEN parse_lines(rest, schedules, parsing_trip)
             ELSE IF line.kind \in {"LO", "LI", "LD"} /\ parsing_trip
             THEN LET loc == Location_from_str(line)
                  IN  IF loc.variant = "Err"
                      THEN [error |-> "Invalid location record",
                            schedules |-> <<>>]
                      ELSE parse_lines(rest, add_location(schedules, loc),
                                       IF is_dest(loc) THEN FALSE
                                       ELSE parsing_trip)
             ELSE parse_lines(rest, schedules, parsing_trip)

parse_mca(lines) == parse_lines(lines, <<>>, FALSE)

\* timetable.stations (the .msn file) and the crs codes stations.json knows
Stations ==
    << [crs |-> "AAA", tiploc |-> "T1"], [crs |-> "XXX", tiploc |-> "TX"],
       [crs |-> "BBB", tiploc |-> "T2"], [crs |-> "CCC", tiploc |-> "T3"] >>

StationInfo == {"AAA", "BBB", "CCC"}

\* timetable.links (the .alf file)
Links ==
    << [origin_crs |-> "AAA", dest_crs |-> "BBB", time |-> 60],
       [origin_crs |-> "AAA", dest_crs |-> "XXX", time |-> 60] >>

\* the stations CifAdapter::new enumerates; station i gets StopId i - 1
EnumeratedStations == SelectSeq(Stations, LAMBDA s : s.crs \in StationInfo)

\* the last index at which keys holds k: HashMap::insert replaces the value
LastIndex(keys, k) ==
    CHOOSE i \in DOMAIN keys :
        /\ keys[i] = k
        /\ \A j \in DOMAIN keys : keys[j] = k => j <= i

tiploc_to_stop_id ==
    LET tiplocs == [i \in DOMAIN EnumeratedStations |-> EnumeratedStations[i].tiploc]
    IN  [t \in { tiplocs[i] : i \in DOMAIN tiplocs } |-> LastIndex(tiplocs, t) - 1]

crs_to_stop_id ==
    LET crss == [i \in DOMAIN EnumeratedStations |-> EnumeratedStations[i].crs]
    IN  [c \in { crss[i] : i \in DOMAIN crss } |-> LastIndex(crss, c) - 1]

\* schedule i (from 1) is inserted under its id with TripId i - 1
schedule_to_trip_id(schedules) ==
    LET ids == [i \in DOMAIN schedules |-> schedules[i].id]
    IN  [id \in { ids[i] : i \in DOMAIN ids } |-> LastIndex(ids, id) - 1]

CifAdapter_stops == { i - 1 : i \in DOMAIN EnumeratedStations }

\* the Service of every schedule, pushed under the schedule's trip id into
\* cancellations or into services by the schedule's type
CifAdapter_calendar(schedules) ==
    LET trip_id(s) == schedule_to_trip_id(schedules)[s.id]
        service(s) == NewService(s.start_date, s.end_date, s.days_run)
        cancelling == SelectSeq(schedules, LAMBDA s : s.trip_type = "Cancellation")
        running == SelectSeq(schedules, LAMBDA s : s.trip_type # "Cancellation")
        Entries(ss) ==
            [t \in { trip_id(ss[i]) : i \in DOMAIN ss } |->
                LET mine == SelectSeq(ss, LAMBDA s : trip_id(s) = t)
                IN  [i \in DOMAIN mine |-> service(mine[i])]]
    IN  Calendar_new(Entries(running), Entries(cancelling))

\* schedule.locations filtered by tiploc_to_stop_id.contains_key
MappedLocations(schedule) ==
    SelectSeq(schedule.locations, LAMBDA loc : loc.tiploc \in DOMAIN tiploc_to_stop_id)

\* from.departure_time().expect(..) or to.arrival_time().expect(..) meets None
ConnectionsPanics(schedules) ==
    \E i \in DOMAIN schedules :
        LET locations == MappedLocations(schedules[i])
        IN  \E w \in 1..(Len(locations) - 1) :
                \/ locations[w].variant = "Destination"
                \/ locations[w + 1].variant = "Origin"

\* one connection for each locations.windows(2) of each schedule
RECURSIVE CifAdapter_connections(_, _)
CifAdapter_connections(schedules, all) ==
    IF schedules = <<>> THEN <<>>
    ELSE LET schedule == Head(schedules)
             trip_id == schedule_to_trip_id(all)[schedule.id]
             locations == MappedLocations(schedule)
         IN  [w \in 1..(Len(locations) - 1) |->
                [trip_id |-> trip_id,
                 from_stop_id |-> tiploc_to_stop_id[locations[w].tiploc],
                 to_stop_id |-> tiploc_to_stop_id[locations[w + 1].tiploc],
                 departure_time |-> locations[w].departure_time,
                 arrival_time |-> locations[w + 1].arrival_time]]
             \o CifAdapter_connections(Tail(schedules), all)

\* the links between known stations, grouped by from_stop_id
CifAdapter_transfers ==
    LET known == SelectSeq(Links, LAMBDA l : /\ l.origin_crs \in DOMAIN crs_to_stop_id
                                              /\ l.dest_crs \in DOMAIN crs_to_stop_id)
        ts == [i \in DOMAIN known |->
                [from_stop_id |-> crs_to_stop_id[known[i].origin_crs],
                 to_stop_id |-> crs_to_stop_id[known[i].dest_crs],
                 transfer_time |-> known[i].time]]
    IN  [s \in { ts[i].from_stop_id : i \in DOMAIN ts } |->
            SelectSeq(ts, LAMBDA t : t.from_stop_id = s)]

\* what the producers of CifAdapter::new(timetable) return
CifAdapter(schedules) ==
    [stops |-> CifAdapter_stops,
     connections |-> CifAdapter_connections(schedules, schedules),
     transfers |-> CifAdapter_transfers,
     calendar |-> CifAdapter_calendar(schedules),
     errors |-> NoErrors]

InitCif ==
    /\ mca \in McaFiles
    /\ timetable = NoTimetable
    /\ pc = "read"
    /\ adapter = <<>>
    /\ stops = {}
    /\ connections = <<>>
    /\ transfers = <<>>
    /\ calendar = [services |-> <<>>, cancellations |-> <<>>]
    /\ query = NoQuery
    /\ pending = <<>>
    /\ csa = CsaState_new
    /\ first_connection = 0
    /\ cursor = 0
    /\ seeded = <<>>
    /\ result = {}
    /\ probe = <<>>
    /\ outcome = NoOutcome
    /\ other = IdleFrame
    /\ file = <<>>

\* CifTimetable::read: the schedules of the .mca file, or its error
ReadTimetable ==
    /\ pc = "read"
    /\ IF parse_mca(mca).error # "none"
       THEN pc' = "failed" /\ timetable' = timetable
       ELSE pc' = "adapt" /\ timetable' = [schedules |-> parse_mca(mca).schedules]
    /\ UNCHANGED <<mca, other, outcome, file, adapter, stops, connections,
                   transfers, calendar, query, pending, csa, first_connection,
                   cursor, seeded, result, probe>>

\* CifAdapter::try_from(&timetable); a producer that from_adapter calls next
\* panics when an expect meets None
CifAdapterNew ==
    /\ pc = "adapt"
    /\ IF ConnectionsPanics(timetable.schedules)
       THEN pc' = "panic" /\ adapter' = adapter
       ELSE pc' = "build" /\ adapter' = CifAdapter(timetable.schedules)
    /\ UNCHANGED <<mca, timetable, other, outcome, file, stops, connections,
                   transfers, calendar, query, pending, csa, first_connection,
                   cursor, seeded, result, probe>>

NextCif ==
    \/ ReadTimetable
    \/ CifAdapterNew
    \/ FromAdapter

SpecCif == InitCif /\ [][NextCif]_vars

(***************************************************************************)
(* Journeys.  The reference for what a traveller can do on the query date: *)
(* walk from the origin to a stop within the radius; take a transfer from  *)
(* the stop where they stand; board a connection of a trip that runs on    *)
(* the date at its from-stop no later than its departure, and ride on      *)
(* through later hops of that trip, in the order the schedule lists them,  *)
(* as long as each hop departs no earlier than the one before arrived.     *)
(* A journey state is a pair <<stop, time>>.                               *)
(***************************************************************************)
Horizon == NaiveDateTime(query.date + 2, 0)

WalkSeeds ==
    { <<p[1], QueryT0 + WalkSeconds(p[2])>> :
        p \in stops_within_radius(stops, query.pos, SEED_RADIUS_M) }

TransferList(tr) ==
    UNION { { tr[s][i] : i \in DOMAIN tr[s] } : s \in DOMAIN tr }

ByTransfer(R) ==
    { <<p[2].to_stop_id, p[1][2] + p[2].transfer_time>> :
        p \in { q \in R \X TransferList(transfers) : q[2].from_stop_id = q[1][1] } }

\* hop j of the adapter's list continues hop i of the same schedule
RidesOn(i, j) ==
    LET cs == adapter.connections
    IN  /\ i <= j
        /\ \A m \in i..j : cs[m].trip_id = cs[i].trip_id
        /\ \A m \in i..(j - 1) :
              arrival_date_time(cs[m], query.date)
                  <= departure_date_time(cs[m + 1], query.date)

\* the stops and times reached by boarding hop i at <<stop, time>> r
ByTrip(r) ==
    LET cs == adapter.connections
    IN  { <<cs[j].to_stop_id, arrival_date_time(cs[j], query.date)>> :
            j \in { k \in DOMAIN cs :
                      \E i \in DOMAIN cs :
                          /\ Calendar_runs_on(calendar, cs[i].trip_id, query.date)
                          /\ cs[i].from_stop_id = r[1]
                          /\ r[2] <= departure_date_time(cs[i], query.date)
                          /\ RidesOn(i, k) } }

JourneyStep(R) ==
    R \cup { x \in ByTransfer(R) : x[2] <= Horizon }
      \cup UNION { ByTrip(r) : r \in R }

RECURSIVE JourneyClosure(_)
JourneyClosure(R) ==
    LET next == JourneyStep(R)
    IN  IF next = R THEN R ELSE JourneyClosure(next)

Journeys == JourneyClosure(WalkSeeds)

\* C1: every (stop, arrival_time) the query returns is the end of a journey
\* from the origin: a walk to a seed stop, then transfers and connections of
\* trips running on the date, each boarded where the traveller stands or
\* ridden as a later hop of the trip they are on.
C1_LabelsAreJourneys ==
    pc = "done" => \A r \in result : r \in Journeys

(***************************************************************************)
(* Journeys with one-hop transfers: a transfer is taken only right after   *)
(* the walk or after a connection, never after another transfer.  A state  *)
(* is <<stop, time, by_transfer>>.                                         *)
(***************************************************************************)
OneHopSeeds == { <<r[1], r[2], FALSE>> : r \in WalkSeeds }

OneHopByTransfer(R) ==
    { <<p[2].to_stop_id, p[1][2] + p[2].transfer_time, TRUE>> :
        p \in { q \in R \X TransferList(transfers) :
                  ~q[1][3] /\ q[2].from_stop_id = q[1][1] } }

OneHopByConnection(R) ==
    { <<p[2].to_stop_id, arrival_date_time(p[2], query.date), FALSE>> :
        p \in { q \in R \X { connections[i] : i \in DOMAIN connections } :
                  /\ Calendar_runs_on(calendar, q[2].trip_id, query.date)
                  /\ q[2].from_stop_id = q[1][1]
                  /\ q[1][2] <= departure_date_time(q[2], query.date) } }

RECURSIVE OneHopClosure(_)
OneHopClosure(R) ==
    LET next == R \cup OneHopByTransfer(R) \cup OneHopByConnection(R)
    IN  IF next = R THEN R ELSE OneHopClosure(next)

OneHopJourneys == OneHopClosure(OneHopSeeds)

SetMin(S) == CHOOSE x \in S : \A y \in S : x <= y

EarliestArrival(s) == SetMin({ r[2] : r \in { x \in OneHopJourneys : x[1] = s } })

\* C2: every stop some journey reaches is in the result, labelled with the
\* minimum end time over all journeys that reach it.
C2_LabelsAreEarliest ==
    pc = "done" =>
        \A s \in { r[1] : r \in OneHopJourneys } :
            /\ s \in DOMAIN csa.arrival_times
            /\ csa.arrival_times[s] = EarliestArrival(s)
            /\ <<s, EarliestArrival(s)>> \in result

\* C3: with non-negative transfer times, no returned arrival_time lies
\* before the query's date-time (D, T).
C3_NoTimeTravel ==
    (/\ pc = "done"
     /\ \A t \in TransferList(transfers) : t.transfer_time >= 0)
        => \A r \in result : r[2] >= NaiveDateTime(query.date, query.departure_time)

\* a returned label that a boarded connection arriving after midnight set
C3_Witness ==
    /\ pc = "done"
    /\ \E i \in DOMAIN connections :
          /\ connections[i].arrival_time < connections[i].departure_time
          /\ i > first_connection
          /\ connections[i].trip_id \in csa.boarded_trips
          /\ <<connections[i].to_stop_id,
               NaiveDateTime(query.date + 1, connections[i].arrival_time)>> \in result
    /\ \E r \in result : r[1] \in DOMAIN transfers

\* C6: the scan starts at the first connection whose departure_time is at
\* least the query time: no connection before the start departs at or after
\* it, so each connection departing exactly at the query time is visited.
C6_ScanStartsAtFirst ==
    pc \in {"scan", "done"} =>
        /\ \A i \in DOMAIN connections :
              connections[i].departure_time >= query.departure_time
                  => i > first_connection
        /\ \A i \in DOMAIN connections :
              connections[i].departure_time < query.departure_time
                  => i <= first_connection

\* the times Phase A may give stop s: its own walk, and the walk to a seed
\* stop u followed by a transfer from u to s
SeedCandidates(s) ==
    LET near == stops_within_radius(stops, query.pos, SEED_RADIUS_M)
    IN  { QueryT0 + WalkSeconds(p[2]) : p \in { q \in near : q[1] = s } }
        \cup { QueryT0 + WalkSeconds(p[1][2]) + p[2].transfer_time :
                 p \in { q \in near \X TransferList(transfers) :
                           /\ q[2].from_stop_id = q[1][1]
                           /\ q[2].to_stop_id = s } }

\* C7: after Phase A the label of every stop is the minimum of its walking
\* seed and of the seeds of nearby stops extended by one transfer.
C7_SeedPhaseTakesMin ==
    pc \in {"scan", "done"} =>
        \A s \in stops :
            /\ s \in DOMAIN seeded <=> SeedCandidates(s) # {}
            /\ s \in DOMAIN seeded => seeded[s] = SetMin(SeedCandidates(s))

\* the whole call as a function of the order the radius search yields the
\* seed stops in and of the index the scan starts from
RECURSIVE SeedAll(_, _)
SeedAll(st, order) ==
    IF order = <<>> THEN st
    ELSE SeedAll(SeedStop(st, transfers, QueryT0, Head(order)[1], Head(order)[2]),
                 Tail(order))

RECURSIVE ScanFrom(_, _)
ScanFrom(st, k) ==
    IF k > Len(connections) THEN st
    ELSE ScanFrom(ScanConnection(st, transfers, calendar, query.date, connections[k]),
                  k + 1)

QueryResult(order, first) ==
    Emitted(ScanFrom(SeedAll(CsaState_new, order), first + 1))

\* C8: for a fixed network and query the returned set of (stop,
\* arrival_time) pairs is the same for every order in which the radius
\* search yields the seed stops.
C8_SeedOrderIndependent ==
    pc = "done" =>
        \A order \in OrdersOf(stops_within_radius(stops, query.pos, SEED_RADIUS_M)) :
            QueryResult(order, first_connection) = result

\* window w matches date d: start <= d <= end and the weekday bit of d
WindowMatches(w, d) ==
    /\ w.start_date <= d
    /\ d <= w.end_date
    /\ w.runs_on[(d % 7) + 1]

HasWindow(windows, t, d) ==
    /\ t \in DOMAIN windows
    /\ \E i \in DOMAIN windows[t] : WindowMatches(windows[t][i], d)

EveryTripCancelled ==
    \A i \in DOMAIN connections :
        HasWindow(calendar.cancellations, connections[i].trip_id, query.date)

\* C10: when every trip has a cancellation window matching the query date,
\* the scan changes no label and boards no trip: the result is the seed
\* phase's labelling, the stops within the radius and the targets of their
\* transfers.
C10_RunOnRespected ==
    (pc \in {"scan", "done"} /\ EveryTripCancelled) =>
        /\ csa.arrival_times = seeded
        /\ csa.boarded_trips = {}
        /\ pc = "done" => result = { <<s, seeded[s]>> : s \in DOMAIN seeded }
        /\ DOMAIN seeded = { s \in stops : SeedCandidates(s) # {} }

\* a finished query on a date when every trip is cancelled, with a scanned
\* connection of a trip in service that the traveller could have boarded
C10_Witness ==
    /\ pc = "done"
    /\ EveryTripCancelled
    /\ \E i \in DOMAIN connections :
          /\ i > first_connection
          /\ HasWindow(calendar.services, connections[i].trip_id, query.date)
          /\ connections[i].from_stop_id \in DOMAIN seeded
          /\ seeded[connections[i].from_stop_id]
                <= NaiveDateTime(query.date, connections[i].departure_time)
          /\ connections[i].to_stop_id \notin DOMAIN seeded

\* C9: a trip runs on a date iff some service window of the trip has
\* start_date <= date <= end_date with the weekday bit of the date set
\* (bit 0 Monday .. bit 6 Sunday) and no cancellation window of the trip
\* matches the date by the same test; a trip without a service window, or
\* without any calendar entry, does not run.
C9_CalendarRule ==
    probe # <<>> =>
        /\ probe.runs_on <=>
              (/\ HasWindow(calendar.services, probe.trip_id, probe.date)
               /\ ~HasWindow(calendar.cancellations, probe.trip_id, probe.date))
        /\ probe.trip_id \notin DOMAIN calendar.services => ~probe.runs_on

\* a trip found to run on the last day of its only matching service window,
\* a Monday of the second week, while it has a cancellation window that
\* does not match
C9_Witness ==
    /\ probe # <<>>
    /\ probe.runs_on
    /\ probe.date >= 7 /\ probe.date % 7 = 0
    /\ probe.trip_id \in DOMAIN calendar.cancellations
    /\ \A i \in DOMAIN calendar.services[probe.trip_id] :
          WindowMatches(calendar.services[probe.trip_id][i], probe.date)
              => calendar.services[probe.trip_id][i].end_date = probe.date

(***************************************************************************)
(* query_lat_lon as a function of the network's transfers, of the order    *)
(* the radius search yields the seed stops in and of the index the scan    *)
(* starts from, to compare networks that differ in their transfers.        *)
(***************************************************************************)
RECURSIVE SeedAllOn(_, _, _)
SeedAllOn(st, tr, order) ==
    IF order = <<>> THEN st
    ELSE SeedAllOn(SeedStop(st, tr, QueryT0, Head(order)[1], Head(order)[2]),
                   tr, Tail(order))

RECURSIVE ScanFromOn(_, _, _)
ScanFromOn(st, tr, k) ==
    IF k > Len(connections) THEN st
    ELSE ScanFromOn(ScanConnection(st, tr, calendar, query.date, connections[k]),
                    tr, k + 1)

QueryOn(tr, order, first) ==
    ScanFromOn(SeedAllOn(CsaState_new, tr, order), tr, first + 1).arrival_times

\* the transfers map with transfer e pushed to the list of its from-stop
WithTransfer(tr, e) ==
    [s \in DOMAIN tr \cup {e.from_stop_id} |->
        IF s = e.from_stop_id THEN Append(get_transfers(tr, s), e) ELSE tr[s]]

SeedOrders == OrdersOf(stops_within_radius(stops, query.pos, SEED_RADIUS_M))

\* transfers (a -> b, w) with w >= 0 that the network does not hold
ExtraTransfers ==
    { e \in [from_stop_id : StopIds, to_stop_id : StopIds, transfer_time : {0, 60}] :
        /\ e.from_stop_id # e.to_stop_id
        /\ e \notin TransferList(transfers) }

\* labelling m is nowhere worse than labelling l and holds every stop of l
NoWorse(m, l) ==
    \A s \in DOMAIN l : s \in DOMAIN m /\ m[s] <= l[s]

\* C11: a network with one more transfer (a -> b, w), w >= 0, returns for
\* the same query a label no later than before for every stop, and every
\* stop the first network returned.
C11_TransferMonotone ==
    pc = "done" =>
        \A e \in ExtraTransfers : \A order \in SeedOrders :
            NoWorse(QueryOn(WithTransfer(transfers, e), order, first_connection),
                    QueryOn(transfers, order, first_connection))

\* connection i is the only way to its to-stop: no other connection and no
\* transfer ends there, and the stop is not within the radius
OnlyWayTo(i) ==
    LET y == connections[i].to_stop_id
    IN  /\ \A j \in DOMAIN connections : connections[j].to_stop_id = y => j = i
        /\ \A t \in TransferList(transfers) : t.to_stop_id # y
        /\ y \notin DOMAIN seeded

\* connection i is scanned, runs on the query date and leaves a stop the
\* seed phase labelled no later than its departure
BoardableFromSeed(i) ==
    /\ i > first_connection
    /\ Calendar_runs_on(calendar, connections[i].trip_id, query.date)
    /\ connections[i].from_stop_id \in DOMAIN seeded
    /\ seeded[connections[i].from_stop_id]
          <= NaiveDateTime(query.date, connections[i].departure_time)

\* C12: the arrival date-time of a connection on departure date D has date
\* D + 1 exactly when its arrival time of day is strictly before its
\* departure time of day and date D otherwise (arrival == departure
\* included), with the arrival time of day kept; a query that boards such a
\* connection over midnight labels its to-stop with (D + 1, arrival).
C12_MidnightRollover ==
    /\ \A i \in DOMAIN connections : \A d \in QueryDates :
          LET c == connections[i]
              a == arrival_date_time(c, d)
          IN  /\ a % SecondsPerDay = c.arrival_time
              /\ DateOf(a) = d + 1 <=> c.arrival_time < c.departure_time
              /\ DateOf(a) = d <=> c.arrival_time >= c.departure_time
    /\ pc = "done" =>
          \A i \in DOMAIN connections :
              LET c == connections[i]
                  over == NaiveDateTime(query.date + 1, c.arrival_time)
                  same == NaiveDateTime(query.date, c.arrival_time)
              IN  BoardableFromSeed(i) =>
                    /\ c.to_stop_id \in DOMAIN csa.arrival_times
                    /\ c.arrival_time < c.departure_time =>
                          /\ csa.arrival_times[c.to_stop_id] <= over
                          /\ OnlyWayTo(i) => <<c.to_stop_id, over>> \in result
                    /\ c.arrival_time >= c.departure_time =>
                          /\ csa.arrival_times[c.to_stop_id] <= same
                          /\ OnlyWayTo(i) => <<c.to_stop_id, same>> \in result

\* a finished query that boarded a hop over midnight and a hop that takes
\* no time, each the only way to its to-stop
C12_Witness ==
    /\ pc = "done"
    /\ \E i \in DOMAIN connections :
          /\ i > first_connection /\ OnlyWayTo(i)
          /\ connections[i].trip_id \in csa.boarded_trips
          /\ connections[i].arrival_time < connections[i].departure_time
          /\ <<connections[i].to_stop_id,
               NaiveDateTime(query.date + 1, connections[i].arrival_time)>> \in result
    /\ \E i \in DOMAIN connections :
          /\ OnlyWayTo(i)
          /\ connections[i].trip_id \in csa.boarded_trips
          /\ connections[i].arrival_time = connections[i].departure_time
          /\ <<connections[i].to_stop_id,
               NaiveDateTime(query.date, connections[i].arrival_time)>> \in result

\* every stop a connection or a transfer of adapter a names is a key of its
\* stops, and every trip a connection names is in its calendar
ValidReferences(a) ==
    /\ \A i \in DOMAIN a.connections :
          /\ a.connections[i].from_stop_id \in a.stops
          /\ a.connections[i].to_stop_id \in a.stops
          /\ a.connections[i].trip_id
                \in DOMAIN a.calendar.services \cup DOMAIN a.calendar.cancellations
    /\ \A t \in TransferList(a.transfers) :
          t.from_stop_id \in a.stops /\ t.to_stop_id \in a.stops

\* C13: from_adapter returns a network only for an adapter whose connections
\* and transfers name known stops and whose connections name trips of the
\* calendar; for any other adapter it returns an error and no network.
C13_BuildValidates ==
    (pc # "build" /\ ~ValidReferences(adapter)) =>
        /\ pc = "failed"
        /\ outcome.error # "none"
        /\ stops = {} /\ connections = <<>>

\* C14: when a producer of the adapter fails, from_adapter returns that
\* producer's error unchanged and no network; it calls each producer at most
\* once and none after the one that failed.
C14_AdapterErrorsFailFast ==
    pc # "build" =>
        LET calls == outcome.calls
            last == calls[Len(calls)]
        IN  /\ \A i, j \in DOMAIN calls : calls[i] = calls[j] => i = j
            /\ \A i \in DOMAIN calls : calls[i] \in DOMAIN adapter.errors
            /\ \A i \in 1..(Len(calls) - 1) : adapter.errors[calls[i]] = "ok"
            /\ (\E p \in DOMAIN adapter.errors : adapter.errors[p] # "ok") =>
                  /\ pc = "failed"
                  /\ adapter.errors[last] # "ok"
                  /\ outcome.error = adapter.errors[last]
                  /\ stops = {} /\ connections = <<>> /\ transfers = <<>>
                  /\ calendar = [services |-> <<>>, cancellations |-> <<>>]
            /\ (\A p \in DOMAIN adapter.errors : adapter.errors[p] = "ok") =>
                  /\ pc # "failed"
                  /\ outcome.error = "none"
                  /\ Len(calls) = Cardinality(DOMAIN adapter.errors)

\* a build that failed at connections() with calendar() failing as well:
\* stops() and connections() were called, transfers() and calendar() not
C14_Witness ==
    /\ pc = "failed"
    /\ adapter.errors["stops"] = "ok"
    /\ adapter.errors["connections"] # "ok"
    /\ adapter.errors["calendar"] # "ok"
    /\ outcome.calls = << "stops", "connections" >>
    /\ outcome.error = adapter.errors["connections"]

\* C15: a query on a network that from_adapter returned never panics: every
\* labelled stop can be looked up in stops when the result is emitted.
C15_QueriesNeverFail ==
    /\ pc # "panic"
    /\ pc \in {"seed", "scan", "done"} => DOMAIN csa.arrival_times \subseteq stops

\* C16: when no stop lies within 500 m of the query coordinate, no label is
\* ever created, no trip is boarded and the query returns nothing, whatever
\* the network holds.
C16_EmptyNeighbourhood ==
    (/\ pc \in {"seed", "scan", "done"}
     /\ \A s \in stops : Distance(query.pos, StopPos(s)) > SEED_RADIUS_M)
        => /\ csa.arrival_times = <<>>
           /\ csa.boarded_trips = {}
           /\ pc = "done" => result = {}

\* a finished query from a coordinate far from every stop, on a network with
\* transfers, that scanned a connection of a trip running on the date
C16_Witness ==
    /\ pc = "done"
    /\ \A s \in stops : Distance(query.pos, StopPos(s)) > SEED_RADIUS_M
    /\ result = {}
    /\ transfers # <<>>
    /\ \E i \in DOMAIN connections :
          /\ i > first_connection
          /\ HasWindow(calendar.services, connections[i].trip_id, query.date)
          /\ ~HasWindow(calendar.cancellations, connections[i].trip_id, query.date)

(***************************************************************************)
(* query_lat_lon as a function of the network n it runs on, of its         *)
(* arguments q, of the order the radius search yields the seed stops in    *)
(* and of the index the scan starts from.                                  *)
(***************************************************************************)
RECURSIVE SeedAllOf(_, _, _, _)
SeedAllOf(st, n, q, order) ==
    IF order = <<>> THEN st
    ELSE SeedAllOf(SeedStop(st, n.transfers, NaiveDateTime(q.date, q.departure_time),
                            Head(order)[1], Head(order)[2]),
                   n, q, Tail(order))

RECURSIVE ScanFromOf(_, _, _, _)
ScanFromOf(st, n, q, k) ==
    IF k > Len(n.connections) THEN st
    ELSE ScanFromOf(ScanConnection(st, n.transfers, n.calendar, q.date, n.connections[k]),
                    n, q, k + 1)

QueryOf(n, q, order, first) ==
    Emitted(ScanFromOf(SeedAllOf(CsaState_new, n, q, order), n, q, first + 1))

Queries == [pos : Origins, date : QueryDates, departure_time : GridTimes]

\* C17: the network load returns from the file save wrote is structurally
\* equal to the saved one (same tree, stops, connections in the same order,
\* transfers and calendar), and every query returns the same arrivals on
\* both.
C17_PersistenceRoundTrip ==
    probe # <<>> =>
        /\ probe.tree = Network.tree
        /\ probe.stops = Network.stops
        /\ probe.connections = connections
        /\ probe.transfers = transfers
        /\ probe.calendar = calendar
        /\ \A q \in Queries :
              /\ stops_within_radius(DOMAIN probe.stops, q.pos, SEED_RADIUS_M)
                    = stops_within_radius(stops, q.pos, SEED_RADIUS_M)
              /\ binary_search_by_key(probe.connections, q.departure_time)
                    = binary_search_by_key(connections, q.departure_time)
              /\ \A order \in OrdersOf(stops_within_radius(stops, q.pos, SEED_RADIUS_M)) :
                 \A first \in binary_search_by_key(connections, q.departure_time) :
                    QueryOf(probe, q, order, first) = QueryOf(Network, q, order, first)

\* a network with a trip over midnight, a transfer and a cancellation, saved
\* with its stops out of the order of their ids and loaded again
C17_Witness ==
    /\ probe # <<>>
    /\ file[Len(EncodeTree(Network.tree)) + 2] # 1
    /\ Len(connections) >= 2
    /\ \E i \in DOMAIN connections :
          connections[i].arrival_time < connections[i].departure_time
    /\ transfers # <<>>
    /\ DOMAIN calendar.cancellations # {}
    /\ \E i \in DOMAIN file : file[i] >= 128

\* C18: the file save writes starts with the magic RISO and the u32 version
\* 1, and load decodes no file that does not start so.
C18_FormatGate ==
    /\ file # <<>> =>
          /\ Len(file) >= 8
          /\ SubSeq(file, 1, 4) = << 82, 73, 83, 79 >>
          /\ SubSeq(file, 5, 8) = << 1, 0, 0, 0 >>
    /\ (probe # <<>> /\ SubSeq(file, 1, 4) # << 82, 73, 83, 79 >>) => probe = "error"

\* connection i runs on the query date, takes no time and can be boarded at
\* its from-stop: the seed phase labelled that stop no later than it departs
ZeroDurationBoardable(i) ==
    /\ connections[i].arrival_time = connections[i].departure_time
    /\ connections[i].departure_time >= query.departure_time
    /\ Calendar_runs_on(calendar, connections[i].trip_id, query.date)
    /\ connections[i].from_stop_id \in DOMAIN seeded
    /\ seeded[connections[i].from_stop_id]
          <= NaiveDateTime(query.date, connections[i].departure_time)

\* C19: a zero-duration connection A -> B at time t that the traveller can
\* board labels B no later than t, and a running connection B -> C that
\* departs at t is then live and labels C no later than its arrival, in
\* whatever order the build placed the connections that depart at t.
C19_ZeroDurationPropagates ==
    pc = "done" =>
        \A i \in DOMAIN connections :
            ZeroDurationBoardable(i) =>
                LET b == connections[i].to_stop_id
                    t == NaiveDateTime(query.date, connections[i].departure_time)
                IN  /\ b \in DOMAIN csa.arrival_times
                    /\ csa.arrival_times[b] <= t
                    /\ \A j \in DOMAIN connections :
                          (/\ connections[j].from_stop_id = b
                           /\ connections[j].departure_time = connections[i].departure_time
                           /\ Calendar_runs_on(calendar, connections[j].trip_id, query.date))
                              => /\ connections[j].to_stop_id \in DOMAIN csa.arrival_times
                                 /\ csa.arrival_times[connections[j].to_stop_id]
                                       <= arrival_date_time(connections[j], query.date)

\* the transfers map without the transfers from a stop to itself
WithoutSelfLoops(tr) ==
    [s \in DOMAIN tr |-> SelectSeq(tr[s], LAMBDA t : t.to_stop_id # t.from_stop_id)]

SelfLoops == { t \in TransferList(transfers) : t.to_stop_id = t.from_stop_id }

\* C20: transfers (a -> a, w) with w > 0 change no label: the query returns
\* what it returns on the same network without them.
C20_SelfLoopsChangeNothing ==
    (pc = "done" /\ \A t \in SelfLoops : t.transfer_time > 0) =>
        /\ \A order \in SeedOrders :
              QueryOn(transfers, order, first_connection)
                  = QueryOn(WithoutSelfLoops(transfers), order, first_connection)
        /\ \E order \in SeedOrders :
              result = Emitted([arrival_times |->
                          QueryOn(WithoutSelfLoops(transfers), order, first_connection),
                        boarded_trips |-> {}])

\* a finished query on a network with two self-loops, one at a stop the seed
\* phase labelled and one at a stop a connection labelled
C20_Witness ==
    /\ pc = "done"
    /\ \E t \in SelfLoops :
          t.transfer_time > 0 /\ t.from_stop_id \in DOMAIN seeded
    /\ \E t \in SelfLoops :
          /\ t.transfer_time > 0
          /\ t.from_stop_id \notin DOMAIN seeded
          /\ t.from_stop_id \in DOMAIN csa.arrival_times

\* the step is an iteration of the scan loop, over connections[cursor]
ScanIteration == pc = "scan" /\ pc' = "scan" /\ cursor' = cursor + 1

\* the scan treated connection c as live: it boarded the trip, and the
\* to-stop has a label no later than the connection's arrival
TreatedLive(c) ==
    /\ c.trip_id \in csa'.boarded_trips
    /\ c.to_stop_id \in DOMAIN csa'.arrival_times
    /\ csa'.arrival_times[c.to_stop_id] <= arrival_date_time(c, query.date)

\* C21: a running connection from stop a departing at dep is live whenever
\* a has a label arr[a] <= dep, arr[a] = dep included; when the trip is not
\* boarded and a has no label or arr[a] > dep, the connection is not live.
C21_InclusiveBoarding ==
    [][ScanIteration =>
          LET c == connections[cursor]
              a == c.from_stop_id
              dep == NaiveDateTime(query.date, c.departure_time)
              runs == /\ HasWindow(calendar.services, c.trip_id, query.date)
                      /\ ~HasWindow(calendar.cancellations, c.trip_id, query.date)
          IN  /\ (/\ runs
                  /\ a \in DOMAIN csa.arrival_times
                  /\ csa.arrival_times[a] <= dep) => TreatedLive(c)
              /\ (/\ runs
                  /\ c.trip_id \notin csa.boarded_trips
                  /\ (a \notin DOMAIN csa.arrival_times \/ csa.arrival_times[a] > dep))
                    => csa' = csa]_vars

\* the first connection scanned was boarded at a stop whose label equals
\* its departure exactly
C21_Witness ==
    /\ pc = "scan"
    /\ cursor = first_connection + 2
    /\ cursor - 1 \in DOMAIN connections
    /\ LET c == connections[cursor - 1]
       IN  /\ c.from_stop_id \in DOMAIN seeded
           /\ seeded[c.from_stop_id] = NaiveDateTime(query.date, c.departure_time)
           /\ c.to_stop_id # c.from_stop_id
           /\ csa.boarded_trips = {c.trip_id}
           /\ c.to_stop_id \notin DOMAIN seeded
           /\ c.to_stop_id \in DOMAIN csa.arrival_times

\* C22: a query changes nothing of the network, and however the steps of
\* two queries on one network interleave, each returns what it returns when
\* run alone: its labels and its boarded trips are its own.
C22_QueriesShareNothing ==
    /\ pc \notin {"build", "failed"} =>
          [stops |-> stops, connections |-> connections, transfers |-> transfers,
           calendar |-> calendar] \in TransportNetwork_from_adapter(adapter)
    /\ pc = "done" =>
          \E order \in SeedOrders : result = QueryResult(order, first_connection)
    /\ other.pc = "done" =>
          \E order \in OrdersOf(stops_within_radius(stops, other.query.pos, SEED_RADIUS_M)) :
              other.result = QueryOf(Network, other.query, order, other.first_connection)

\* two queries from different places, both in the middle of their scan, each
\* with a trip boarded and with labels of its own
C22_Witness ==
    /\ pc = "scan" /\ other.pc = "scan"
    /\ cursor > first_connection + 1 /\ cursor <= Len(connections)
    /\ other.cursor > other.first_connection + 1 /\ other.cursor <= Len(connections)
    /\ query.pos # other.query.pos
    /\ csa.boarded_trips # {} /\ other.csa.boarded_trips # {}
    /\ csa.boarded_trips # other.csa.boarded_trips
    /\ csa.arrival_times # other.csa.arrival_times

(***************************************************************************)
(* The network built from a CIF timetable.                                 *)
(***************************************************************************)
TripsWithEntry(cal) == DOMAIN cal.services \cup DOMAIN cal.cancellations

\* C23: in every network built from the CIF adapter, every trip id that has
\* an entry (a service or a cancellation window) in the calendar is the
\* trip_id of at least one connection of the network, also for schedules
\* with fewer than two locations mapped to known stops.
C23_CalendarCoversUsedTrips ==
    (pc = "idle" /\ timetable # NoTimetable) =>
        TripsWithEntry(calendar) \subseteq TripsOf(connections)

\* the TripId under which calendar() and connections() file schedule record i
TripIdOfRecord(i) ==
    schedule_to_trip_id(timetable.schedules)[timetable.schedules[i].id]

\* C26: every schedule record of the timetable has its own TripId: no two
\* distinct records, whatever their schedule id strings, are filed under
\* the same TripId in the connections or in the calendar.
C26_OwnTripIdPerRecord ==
    pc = "idle" =>
        \A i, j \in DOMAIN timetable.schedules :
            i # j => TripIdOfRecord(i) # TripIdOfRecord(j)

\* the locations a schedule is to hold, from the records that follow its BS
\* record: the LO record, the LI records whose activities allow passengers,
\* and the LT record, which ends the schedule
RECURSIVE FollowingLocations(_)
FollowingLocations(lines) ==
    IF lines = <<>> THEN <<>>
    ELSE IF Head(lines).kind = "BS" THEN <<>>
    ELSE IF Head(lines).kind = "LT" THEN << Location_from_str(Head(lines)) >>
    ELSE IF \/ Head(lines).kind = "LO"
            \/ Head(lines).kind = "LI" /\ valid_activities(Head(lines).activities)
    THEN << Location_from_str(Head(lines)) >> \o FollowingLocations(Tail(lines))
    ELSE FollowingLocations(Tail(lines))

\* the positions of the BS records in the file, in file order
RECURSIVE ScheduleHeaders(_, _)
ScheduleHeaders(lines, from) ==
    IF from > Len(lines) THEN <<>>
    ELSE (IF lines[from].kind = "BS" THEN << from >> ELSE <<>>)
         \o ScheduleHeaders(lines, from + 1)

\* C29: when parse_mca has returned the schedules of a file, there is one
\* schedule for every BS record, and its locations are, in file order, the
\* LO record, every LI record whose activities allow passengers, and the LT
\* record that follow the BS record; the LT record is the Destination and
\* ends the schedule, so that no later location record is appended.
C29_ScheduleAssembly ==
    pc \in {"adapt", "build", "idle", "panic"} =>
        LET headers == ScheduleHeaders(mca, 1)
        IN  /\ Len(timetable.schedules) = Len(headers)
            /\ \A k \in DOMAIN headers :
                  timetable.schedules[k].locations
                      = FollowingLocations(SubSeq(mca, headers[k] + 1, Len(mca)))

(***************************************************************************)
(* Staying on a boarded trip.                                              *)
(***************************************************************************)
\* the hops of trip t in trip order, as the adapter lists them
HopsOf(t) == SelectSeq(adapter.connections, LAMBDA c : c.trip_id = t)

\* the days between the trip's first departure and the departure of hop j:
\* a day passes wherever the time of day steps back, in a hop or in a dwell
RECURSIVE DepartureDay(_, _)
DepartureDay(hs, j) ==
    IF j = 1 THEN 0
    ELSE DepartureDay(hs, j - 1)
         + (IF hs[j - 1].arrival_time < hs[j - 1].departure_time THEN 1 ELSE 0)
         + (IF hs[j].departure_time < hs[j - 1].arrival_time THEN 1 ELSE 0)

\* the absolute arrival date-time of hop j when hop i departs on the query date
AbsoluteArrival(hs, i, j) ==
    NaiveDateTime(query.date + DepartureDay(hs, j) - DepartureDay(hs, i)
                      + (IF hs[j].arrival_time < hs[j].departure_time THEN 1 ELSE 0),
                  hs[j].arrival_time)

\* the traveller boards at hop c: the scan visits it, its trip runs on the
\* query date and the seed phase labelled its from-stop by its departure
BoardedAt(c) ==
    \E p \in DOMAIN connections : connections[p] = c /\ BoardableFromSeed(p)

\* C24: when the traveller boards a running trip at one of its hops, every
\* later hop of the trip in trip order, a hop that departs after midnight
\* included, has its to-stop labelled in the result no later than the
\* hop's absolute arrival date-time.
C24_StayOnTheTrain ==
    pc = "done" =>
        \A t \in TripIds :
            LET hs == HopsOf(t)
            IN  \A i \in DOMAIN hs : \A j \in DOMAIN hs :
                    (i < j /\ BoardedAt(hs[i])) =>
                        /\ hs[j].to_stop_id \in DOMAIN csa.arrival_times
                        /\ csa.arrival_times[hs[j].to_stop_id]
                              <= AbsoluteArrival(hs, i, j)

(***************************************************************************)
(* The steps of the two loops, and what one step may write.                *)
(***************************************************************************)
SeedIteration == pc = "seed" /\ pending # <<>> /\ pending' = Tail(pending)

\* the step wrote the label of stop s
Wrote(s) ==
    /\ s \in DOMAIN csa'.arrival_times
    /\ s \notin DOMAIN csa.arrival_times
          \/ csa'.arrival_times[s] # csa.arrival_times[s]

\* the times the transfers that start at b offer to stop s when b is set to tb
DirectOffers(b, tb, s) ==
    LET ts == get_transfers(transfers, b)
    IN  { tb + ts[i].transfer_time : i \in { n \in DOMAIN ts : ts[n].to_stop_id = s } }

\* the step set arr[b] to tb, and every other stop holds the earliest of the
\* label it had and what the transfers that start at b offer it
OneHopFrom(b, tb) ==
    /\ b \in DOMAIN csa'.arrival_times
    /\ csa'.arrival_times[b] = tb
    /\ \A s \in StopIds \ {b} :
          LET had == IF s \in DOMAIN csa.arrival_times
                     THEN { csa.arrival_times[s] } ELSE {}
              cands == DirectOffers(b, tb, s) \cup had
          IN  IF cands = {} THEN s \notin DOMAIN csa'.arrival_times
              ELSE /\ s \in DOMAIN csa'.arrival_times
                   /\ csa'.arrival_times[s] = SetMin(cands)

\* C25: when a seed or a connection sets arr[b], only the transfers that
\* start at b are relaxed: a stop that no transfer from b reaches keeps the
\* label it had or stays without one, also when two consecutive transfers
\* lead to it from b.
C25_OneHopRelaxation ==
    [][/\ SeedIteration =>
              OneHopFrom(Head(pending)[1], QueryT0 + WalkSeconds(Head(pending)[2]))
       /\ (ScanIteration /\ Wrote(connections[cursor].to_stop_id)) =>
              OneHopFrom(connections[cursor].to_stop_id,
                         arrival_date_time(connections[cursor], query.date))]_vars

\* a connection has set the label of stop 1, the transfer 1 -> 2 has set
\* the label of stop 2, and stop 3, which the transfer 2 -> 3 reaches from
\* stop 2, has no label
C25_Witness ==
    /\ pc = "scan"
    /\ get_transfers(transfers, 1) # <<>>
    /\ get_transfers(transfers, 2) # <<>>
    /\ 1 \notin DOMAIN seeded
    /\ {1, 2} \subseteq DOMAIN csa.arrival_times
    /\ csa.arrival_times[2] = csa.arrival_times[1] + 60
    /\ 3 \notin DOMAIN csa.arrival_times

\* the trip has a service window and no cancellation window on the query date
RunsOnQueryDate(trip_id) ==
    /\ HasWindow(calendar.services, trip_id, query.date)
    /\ ~HasWindow(calendar.cancellations, trip_id, query.date)

\* C27: no trip is boarded before the scan; every trip in the boarded set
\* runs on the query date; an iteration of the scan inserts at most the
\* trip of its connection, and inserts it exactly when the trip runs and
\* was already boarded or can_board holds at the from-stop, whether or not
\* the to-stop's label improves; a connection of a trip that does not run
\* changes neither the boarded set nor any label.
C27_BoardedSet ==
    [][/\ pc' = "seed" => csa'.boarded_trips = {}
       /\ pc' \in {"scan", "done"} =>
              \A t \in csa'.boarded_trips : RunsOnQueryDate(t)
       /\ ScanIteration =>
              LET c == connections[cursor]
                  live == /\ RunsOnQueryDate(c.trip_id)
                          /\ \/ c.trip_id \in csa.boarded_trips
                             \/ /\ c.from_stop_id \in DOMAIN csa.arrival_times
                                /\ csa.arrival_times[c.from_stop_id]
                                      <= NaiveDateTime(query.date, c.departure_time)
              IN  /\ live => csa'.boarded_trips = csa.boarded_trips \cup {c.trip_id}
                  /\ ~live => csa'.boarded_trips = csa.boarded_trips
                  /\ ~RunsOnQueryDate(c.trip_id) => csa' = csa]_vars

\* the first connection scanned was boarded and left every label as the
\* seed phase set it: its to-stop had a label no later than its arrival
C27_Witness ==
    /\ pc = "scan"
    /\ cursor = first_connection + 2
    /\ cursor - 1 \in DOMAIN connections
    /\ csa.boarded_trips = { connections[cursor - 1].trip_id }
    /\ csa.arrival_times = seeded
    /\ connections[cursor - 1].to_stop_id \in DOMAIN seeded

\* C28: an iteration of the scan removes no label and raises none: a label
\* that changes becomes strictly earlier; when the to-stop already has a
\* label no later than the connection's arrival, no label changes, so the
\* transfers of the to-stop are not relaxed.
C28_LabelsOnlyImprove ==
    [][ScanIteration =>
          LET c == connections[cursor]
              cand == arrival_date_time(c, query.date)
          IN  /\ \A s \in DOMAIN csa.arrival_times :
                    /\ s \in DOMAIN csa'.arrival_times
                    /\ csa'.arrival_times[s] <= csa.arrival_times[s]
              /\ (/\ c.to_stop_id \in DOMAIN csa.arrival_times
                  /\ csa.arrival_times[c.to_stop_id] <= cand)
                    => csa'.arrival_times = csa.arrival_times]_vars

\* the scan has replaced a label of the seed phase by a strictly earlier
\* time, and a boarded connection that arrives at a labelled stop later
\* than its label has left the label as it was
C28_Witness ==
    /\ pc = "scan"
    /\ cursor > Len(connections)
    /\ \E s \in DOMAIN seeded : csa.arrival_times[s] < seeded[s]
    /\ \E i \in DOMAIN connections :
          /\ i > first_connection
          /\ connections[i].trip_id \in csa.boarded_trips
          /\ connections[i].to_stop_id \in DOMAIN csa.arrival_times
          /\ csa.arrival_times[connections[i].to_stop_id]
                < arrival_date_time(connections[i], query.date)
====
